---- MODULE Spec2Model ----
(***************************************************************************)
(* capollama: walk a path, caption every image through a vision model and  *)
(* write the caption beside the image.  Model of src/unnamed/part_001      *)
(* (the current main.go: ProcessImages, isImageFile, ChatWithImage,        *)
(* ChatWithImageOpenAI, main).                                             *)
(*                                                                         *)
(* Strings are TLA+ strings; TLC evaluates Len, SubSeq and \o on them, so  *)
(* the Go string and path functions are written out character by          *)
(* character.                                                              *)
(***************************************************************************)
EXTENDS Integers, Sequences, FiniteSets, TLC

(***************************************************************************)
(* Bounds of the model.                                                    *)
(***************************************************************************)
\* longest text a backend returns for one request
MaxOutLen == 2
\* most entries of one tree whose lstat / readdir fails during a walk
MaxWalkErrs == 2

(***************************************************************************)
(* package strings                                                         *)
(***************************************************************************)
Char(s, i) == SubSeq(s, i, i)

\* unicode.IsSpace, on the characters the model uses
IsSpace(c) == c \in {" ", "\n", "\t"}

RECURSIVE TrimLeftSpace(_)
TrimLeftSpace(s) ==
    IF Len(s) > 0 /\ IsSpace(Char(s, 1))
    THEN TrimLeftSpace(SubSeq(s, 2, Len(s)))
    ELSE s

RECURSIVE TrimRightSpace(_)
TrimRightSpace(s) ==
    IF Len(s) > 0 /\ IsSpace(Char(s, Len(s)))
    THEN TrimRightSpace(SubSeq(s, 1, Len(s) - 1))
    ELSE s

\* strings.TrimSpace
TrimSpace(s) == TrimRightSpace(TrimLeftSpace(s))

\* strings.HasPrefix / strings.HasSuffix
HasPrefix(s, prefix) ==
    Len(s) >= Len(prefix) /\ SubSeq(s, 1, Len(prefix)) = prefix

HasSuffix(s, suffix) ==
    Len(s) >= Len(suffix) /\ SubSeq(s, Len(s) - Len(suffix) + 1, Len(s)) = suffix

\* strings.TrimPrefix / strings.TrimSuffix
TrimPrefix(s, prefix) ==
    IF HasPrefix(s, prefix) THEN SubSeq(s, Len(prefix) + 1, Len(s)) ELSE s

TrimSuffix(s, suffix) ==
    IF HasSuffix(s, suffix) THEN SubSeq(s, 1, Len(s) - Len(suffix)) ELSE s

\* unicode.ToLower on one character
LowerChar(c) ==
    CASE c = "A" -> "a" [] c = "B" -> "b" [] c = "C" -> "c" [] c = "D" -> "d"
      [] c = "E" -> "e" [] c = "F" -> "f" [] c = "G" -> "g" [] c = "H" -> "h"
      [] c = "I" -> "i" [] c = "J" -> "j" [] c = "K" -> "k" [] c = "L" -> "l"
      [] c = "M" -> "m" [] c = "N" -> "n" [] c = "O" -> "o" [] c = "P" -> "p"
      [] c = "Q" -> "q" [] c = "R" -> "r" [] c = "S" -> "s" [] c = "T" -> "t"
      [] c = "U" -> "u" [] c = "V" -> "v" [] c = "W" -> "w" [] c = "X" -> "x"
      [] c = "Y" -> "y" [] c = "Z" -> "z" [] OTHER -> c

\* strings.ToLower
RECURSIVE ToLower(_)
ToLower(s) ==
    IF Len(s) = 0 THEN ""
    ELSE LowerChar(Char(s, 1)) \o ToLower(SubSeq(s, 2, Len(s)))

\* byte order of the characters the model's file names use (sort.Strings)
ByteOrder == <<".", "/", "B", "E", "G", "J", "P", "a", "b", "c", "d", "e",
               "f", "g", "h", "i", "j", "m", "n", "o", "p", "s", "t", "u", "x">>

CharRank(c) == CHOOSE i \in 1..Len(ByteOrder) : ByteOrder[i] = c

\* a < b as Go compares strings
RECURSIVE StrLess(_, _)
StrLess(a, b) ==
    IF Len(b) = 0 THEN FALSE
    ELSE IF Len(a) = 0 THEN TRUE
    ELSE IF Char(a, 1) = Char(b, 1)
         THEN StrLess(SubSeq(a, 2, Len(a)), SubSeq(b, 2, Len(b)))
         ELSE CharRank(Char(a, 1)) < CharRank(Char(b, 1))

Least(S) == CHOOSE a \in S : \A b \in S \ {a} : StrLess(a, b)

\* sort.Strings of a set of names
RECURSIVE SortStrings(_), SortFrom(_, _)
SortStrings(S) == IF S = {} THEN <<>> ELSE SortFrom(Least(S), S)
SortFrom(least, S) == <<least>> \o SortStrings(S \ {least})

(***************************************************************************)
(* package path/filepath (Unix)                                            *)
(***************************************************************************)
\* index of the last separator of path at or before i, 0 when there is none
RECURSIVE LastSep(_, _)
LastSep(path, i) ==
    IF i < 1 THEN 0
    ELSE IF Char(path, i) = "/" THEN i
    ELSE LastSep(path, i - 1)

\* filepath.Ext: from the last dot of the last element, "" when it has none
RECURSIVE ExtFrom(_, _)
ExtFrom(path, i) ==
    IF i < 1 \/ Char(path, i) = "/" THEN ""
    ELSE IF Char(path, i) = "." THEN SubSeq(path, i, Len(path))
    ELSE ExtFrom(path, i - 1)

Ext(path) == ExtFrom(path, Len(path))

\* the elements of path between separators (empty elements included)
RECURSIVE SplitPath(_), SplitAt(_, _)
SplitPath(path) == SplitAt(path, LastSep(path, Len(path)))
SplitAt(path, i) ==
    IF i = 0 THEN <<path>>
    ELSE Append(SplitPath(SubSeq(path, 1, i - 1)), SubSeq(path, i + 1, Len(path)))

\* Clean's element pass: drop "" and ".", let ".." remove the element before it
RECURSIVE CleanElems(_, _, _), CleanElem(_, _, _, _)
CleanElems(elems, out, rooted) ==
    IF elems = <<>> THEN out
    ELSE CleanElem(Head(elems), Tail(elems), out, rooted)
CleanElem(e, rest, out, rooted) ==
    IF e = "" \/ e = "." THEN CleanElems(rest, out, rooted)
    ELSE IF e = ".."
         THEN IF Len(out) > 0 /\ out[Len(out)] # ".."
              THEN CleanElems(rest, SubSeq(out, 1, Len(out) - 1), rooted)
              ELSE IF rooted THEN CleanElems(rest, out, rooted)
              ELSE CleanElems(rest, Append(out, e), rooted)
         ELSE CleanElems(rest, Append(out, e), rooted)

RECURSIVE JoinElems(_)
JoinElems(elems) ==
    IF elems = <<>> THEN ""
    ELSE IF Len(elems) = 1 THEN elems[1]
    ELSE elems[1] \o "/" \o JoinElems(Tail(elems))

CleanBody(body, rooted) ==
    IF rooted THEN "/" \o body
    ELSE IF body = "" THEN "." ELSE body

\* filepath.Clean
Clean(path) ==
    IF path = "" THEN "."
    ELSE CleanBody(JoinElems(CleanElems(SplitPath(path), <<>>, Char(path, 1) = "/")),
                   Char(path, 1) = "/")

\* filepath.Join of two elements
Join(dir, name) ==
    IF dir = "" /\ name = "" THEN ""
    ELSE IF dir = "" THEN Clean(name)
    ELSE IF name = "" THEN Clean(dir)
    ELSE Clean(dir \o "/" \o name)

\* filepath.Dir
Dir(path) == Clean(SubSeq(path, 1, LastSep(path, Len(path))))

RECURSIVE TrimRightSep(_)
TrimRightSep(path) ==
    IF Len(path) > 0 /\ Char(path, Len(path)) = "/"
    THEN TrimRightSep(SubSeq(path, 1, Len(path) - 1))
    ELSE path

LastElem(p) == SubSeq(p, LastSep(p, Len(p)) + 1, Len(p))

BaseOr(b) == IF b = "" THEN "/" ELSE b

\* filepath.Base
Base(path) ==
    IF path = "" THEN "." ELSE BaseOr(LastElem(TrimRightSep(path)))

(***************************************************************************)
(* The file system: a function from cleaned path to entry.  Relative paths *)
(* are relative to the working directory, whose own entry is ".".          *)
(***************************************************************************)
File(content) == [kind |-> "file", content |-> content]
Directory == [kind |-> "dir", content |-> ""]

Exists(fsys, path) == path # "" /\ Clean(path) \in DOMAIN fsys

\* os.Stat succeeds: the path names an entry (a trailing separator asks for
\* a directory)
StatOk(fsys, path) ==
    /\ Exists(fsys, path)
    /\ (HasSuffix(path, "/") => fsys[Clean(path)].kind = "dir")

\* FileInfo.IsDir
IsDir(fsys, path) == fsys[Clean(path)].kind = "dir"

\* readDirNames: the sorted names of the entries of a directory
ReadDirNames(fsys, dir) ==
    SortStrings({Base(k) : k \in {e \in DOMAIN fsys :
                                    /\ e # Clean(dir)
                                    /\ Dir(e) = Clean(dir)
                                    /\ Base(e) \notin {".", ".."}}})

(***************************************************************************)
(* ProcessImages and its walk                                              *)
(***************************************************************************)
\* isImageFile
isImageExt(ext) == ext = ".jpg" \/ ext = ".jpeg" \/ ext = ".png"

isImageFile(path) == isImageExt(ToLower(Ext(path)))

NoCalls(ret) == [ret |-> ret, calls |-> <<>>]

\* WalkFn with `return err` where the code has `return nil`
WalkFnReturnsErr(currentPath, isDir, err, rootDir) ==
    IF err THEN NoCalls("err")
    ELSE IF isDir /\ HasPrefix(Base(currentPath), ".") THEN NoCalls("SkipDir")
    ELSE IF ~isDir /\ isImageFile(currentPath)
         THEN [ret |-> "nil", calls |-> <<[path |-> currentPath, root |-> rootDir]>>]
         ELSE NoCalls("nil")

\* the function ProcessImages hands to filepath.Walk: what it returns and
\* the processFunc calls it makes
WalkFn(currentPath, isDir, err, rootDir) ==
    IF err THEN NoCalls("nil")
    ELSE IF isDir /\ HasPrefix(Base(currentPath), ".") THEN NoCalls("SkipDir")
    ELSE IF ~isDir /\ isImageFile(currentPath)
         THEN [ret |-> "nil", calls |-> <<[path |-> currentPath, root |-> rootDir]>>]
         ELSE NoCalls("nil")

\* filepath.walk on an entry whose lstat succeeded, and its loop over the
\* names of a directory.  errs.lstat / errs.readdir are the entries whose
\* lstat / directory read fails.
RECURSIVE walk(_, _, _, _), walkDir(_, _, _, _, _, _), walkNames(_, _, _, _, _),
          walkRest(_, _, _, _, _, _)

\* if !info.IsDir() { return walkFn(path, info, nil) }; names, err :=
\* readDirNames(path); err1 := walkFn(path, info, err)
walk(fsys, errs, path, rootDir) ==
    IF ~IsDir(fsys, path) THEN WalkFn(path, FALSE, FALSE, rootDir)
    ELSE walkDir(fsys, errs, path, rootDir, Clean(path) \in errs.readdir,
                 WalkFn(path, TRUE, Clean(path) \in errs.readdir, rootDir))

\* if err != nil || err1 != nil { return err1 }; for _, name := range names
walkDir(fsys, errs, path, rootDir, rdErr, r1) ==
    IF rdErr \/ r1.ret # "nil" THEN r1
    ELSE walkNames(fsys, errs, path, ReadDirNames(fsys, path), rootDir)

\* walkFn's result for an entry whose lstat failed: SkipDir does not end the loop
AfterLstatErr(r0) ==
    [ret |-> IF r0.ret = "SkipDir" THEN "nil" ELSE r0.ret, calls |-> r0.calls]

\* walk's result for an entry: SkipDir from a directory does not end the loop
AfterWalk(isDir, r0) ==
    [ret |-> IF isDir /\ r0.ret = "SkipDir" THEN "nil" ELSE r0.ret,
     calls |-> r0.calls]

walkNames(fsys, errs, path, names, rootDir) ==
    IF names = <<>> THEN NoCalls("nil")
    ELSE walkRest(fsys, errs, path, Tail(names), rootDir,
            IF Join(path, Head(names)) \in errs.lstat
            THEN AfterLstatErr(WalkFn(Join(path, Head(names)), FALSE, TRUE, rootDir))
            ELSE AfterWalk(IsDir(fsys, Join(path, Head(names))),
                           walk(fsys, errs, Join(path, Head(names)), rootDir)))

Then(r, rest) == [ret |-> rest.ret, calls |-> r.calls \o rest.calls]

\* an error ends the loop, otherwise it goes on with the next name
walkRest(fsys, errs, path, names, rootDir, r) ==
    IF r.ret # "nil" THEN r
    ELSE Then(r, walkNames(fsys, errs, path, names, rootDir))

\* Walk's return: SkipDir from the root is no error
WalkReturns(r) ==
    [ret |-> IF r.ret = "SkipDir" THEN "nil" ELSE r.ret, calls |-> r.calls]

\* filepath.Walk
Walk(fsys, errs, root, rootDir) ==
    WalkReturns(IF Clean(root) \in errs.lstat
                THEN WalkFn(root, FALSE, TRUE, rootDir)
                ELSE walk(fsys, errs, root, rootDir))

\* SingleFileCalls with the path itself as the root
SingleFileCallsRootIsPath(path) ==
    IF isImageFile(path) THEN <<[path |-> path, root |-> path]>> ELSE <<>>

\* the processFunc call ProcessImages makes for a path that is no directory
SingleFileCalls(path) ==
    IF isImageFile(path) THEN <<[path |-> path, root |-> Dir(path)]>> ELSE <<>>

\* return err, after the walk
Returned(w) == [err |-> w.ret, calls |-> w.calls]

\* ProcessImages swallowing the error of its first os.Stat
ProcessImagesIgnoringStat(path, fsys, errs) ==
    IF ~StatOk(fsys, path) THEN [err |-> "nil", calls |-> <<>>]
    ELSE IF ~IsDir(fsys, path) THEN [err |-> "nil", calls |-> SingleFileCalls(path)]
    ELSE Returned(Walk(fsys, errs, path, path))

\* ProcessImages: the error it returns ("nil" for none) and the processFunc
\* calls it makes, in order
ProcessImages(path, fsys, errs) ==
    IF ~StatOk(fsys, path) THEN [err |-> "stat", calls |-> <<>>]
    ELSE IF ~IsDir(fsys, path) THEN [err |-> "nil", calls |-> SingleFileCalls(path)]
    ELSE Returned(Walk(fsys, errs, path, path))

(***************************************************************************)
(* Trees and paths the runs start from                                     *)
(***************************************************************************)
\* two images sharing a base name, and a file that is no image
FsPics ==
    [p \in {"pics", "pics/a.jpg", "pics/a.png", "pics/n.md"} |->
        IF p = "pics" THEN Directory ELSE File("data")]

\* an image that has a caption, a hidden subdirectory, a subdirectory
FsNested ==
    [p \in {"pics", "pics/B.JPEG", "pics/B.txt", "pics/.hid", "pics/.hid/c.jpg",
            "pics/sub", "pics/sub/d.png", "pics/sub/e.gif"} |->
        IF p \in {"pics", "pics/.hid", "pics/sub"} THEN Directory
        ELSE IF p = "pics/B.txt" THEN File("old")
        ELSE File("data")]

\* the working directory, its parent and a directory with a hidden name
FsDot ==
    [p \in {".", "a.jpg", ".photos", ".photos/c.png", "..", "../b.jpeg"} |->
        IF p \in {".", ".photos", ".."} THEN Directory ELSE File("data")]

\* an image whose caption path is taken by a directory
FsDirCap ==
    [p \in {"pics", "pics/a.jpg", "pics/a.txt"} |->
        IF p \in {"pics", "pics/a.txt"} THEN Directory ELSE File("data")]

NoErrs == [lstat |-> {}, readdir |-> {}]

\* p lies beneath directory d (d cleaned), going up by Dir
RECURSIVE IsBeneath(_, _)
IsBeneath(p, d) ==
    IF p \in {".", "/"} \/ Base(p) = ".." THEN FALSE
    ELSE Dir(p) = d \/ IsBeneath(Dir(p), d)

\* the entries a walk of root can meet
WalkEntries(fsys, root) ==
    {e \in DOMAIN fsys : e = Clean(root) \/ IsBeneath(e, Clean(root))}

\* the failures a walk can meet: at most MaxWalkErrs entries fail
WalkErrChoices(fsys, root) ==
    LET U == IF Exists(fsys, root) THEN WalkEntries(fsys, root) ELSE {}
        D == {e \in U : fsys[e].kind = "dir"}
    IN  {[lstat |-> L, readdir |-> R] : <<L, R>> \in
            {x \in (SUBSET U) \X (SUBSET D) :
                /\ x[1] \cap x[2] = {}
                /\ Cardinality(x[1]) + Cardinality(x[2]) <= MaxWalkErrs}}

WalkInputs ==
    {[fsys |-> FsPics, path |-> p] :
        p \in {"pics", "pics/", "pics/a.jpg", "pics/n.md", "pics/a.jpg/", "nope", ""}}
    \cup {[fsys |-> FsNested, path |-> p] :
        p \in {"pics", "./pics", "pics/sub", "pics/.hid", "pics/B.JPEG", "pics/.hid/c.jpg"}}
    \cup {[fsys |-> FsDot, path |-> p] :
        p \in {".", "./", "..", ".photos", "a.jpg", "./a.jpg", "../b.jpeg"}}

\* the runs of the whole program: tree, path argument, walk failures
MainInputs ==
    {[fsys |-> FsPics, path |-> p, errs |-> NoErrs] :
        p \in {"pics", "pics/a.jpg", "pics/n.md", "nope"}}
    \cup {[fsys |-> FsNested, path |-> "pics", errs |-> e] :
        e \in {NoErrs, [lstat |-> {"pics/sub"}, readdir |-> {}]}}
    \cup {[fsys |-> FsDot, path |-> p, errs |-> NoErrs] : p \in {".", "a.jpg"}}
    \cup {[fsys |-> FsDirCap, path |-> "pics", errs |-> NoErrs]}

\* texts of at most n characters over a letter and a space
Longer(shorter) == shorter \cup {t \o c : t \in shorter, c \in {" ", "a"}}

RECURSIVE TextsUpTo(_)
TextsUpTo(n) == IF n = 0 THEN {""} ELSE Longer(TextsUpTo(n - 1))

\* what a backend can answer
Outputs == TextsUpTo(MaxOutLen)

\* cmdArgs after arg.MustParse
ArgsChoices(path) ==
    [Path : {path}, DryRun : BOOLEAN, Force : BOOLEAN,
     StartCaption : {"", "X"}, EndCaption : {"", "Y"},
     OpenAPI : {"", "http://host/v1"}, ApiKey : {""},
     Model : {"qwen2.5vl"}, Prompt : {"Describe"}, System : {"", "Analyse"},
     ForceOneSentence : BOOLEAN]

(***************************************************************************)
(* main                                                                    *)
(***************************************************************************)
\* the backend picked by the API key instead of the endpoint
UseOpenAIByKey(a) == a.ApiKey # ""

\* useOpenAI := args.OpenAPI != ""
UseOpenAI(a) == a.OpenAPI # ""

\* the branch of the callback that picks the chat function
Transport(openai) == IF openai THEN "openai" ELSE "ollama"

\* the caption path made by appending .txt to the whole image path
CaptionFileAppended(path) == path \o ".txt"

\* captionFile := strings.TrimSuffix(path, filepath.Ext(path)) + ".txt"
CaptionFile(path) == TrimSuffix(path, Ext(path)) \o ".txt"

\* the callback without its early return
SkipNever(a, fsys, captionFile) == FALSE

\* the early return with the sense of --force inverted
SkipExistingForced(a, fsys, captionFile) == a.Force /\ StatOk(fsys, captionFile)

\* the callback returns early: no --force and os.Stat(captionFile) succeeds
SkipExisting(a, fsys, captionFile) == ~a.Force /\ StatOk(fsys, captionFile)

\* what ChatWithImage returns for the text the model streamed
OllamaCaption(content) == content

\* what ChatWithImageOpenAI returns for the first choice's content
OpenAICaption(content) == TrimSpace(content)

ChatCaption(openai, content) ==
    IF openai THEN OpenAICaption(content) ELSE OllamaCaption(content)

\* captionText = strings.TrimSpace(start + " " + captionText + " " + end)
FinalCaption(a, captionText) ==
    TrimSpace(a.StartCaption \o " " \o captionText \o " " \o a.EndCaption)

\* the path printed before the caption
PrintedPath(path, root) == TrimPrefix(path, root)

\* the write made whatever --dry-run says
ShouldWriteAlways(a) == TRUE

\* if !args.DryRun
ShouldWrite(a) == ~a.DryRun

\* a write that reports success and leaves the file system as it was
PutDropped(fsys, key, entry) == fsys

Put(fsys, key, entry) ==
    [p \in DOMAIN fsys \cup {key} |-> IF p = key THEN entry ELSE fsys[p]]

\* os.WriteFile(name, data, 0644): open with O_CREATE|O_TRUNC, write, close.
\* The open fails on a directory and may fail otherwise; a failing write or
\* close leaves the truncated file with some prefix of the data.
WriteOutcomesAt(fsys, key, data) ==
    IF key \in DOMAIN fsys /\ fsys[key].kind = "dir"
    THEN {[ok |-> FALSE, fsys |-> fsys]}
    ELSE {[ok |-> TRUE, fsys |-> Put(fsys, key, File(data))],
          [ok |-> FALSE, fsys |-> fsys]}
         \cup {[ok |-> FALSE, fsys |-> Put(fsys, key, File(SubSeq(data, 1, k)))] :
                 k \in 0..Len(data)}

WriteFileOutcomes(fsys, name, data) == WriteOutcomesAt(fsys, Clean(name), data)

\* a value of the options map with its dynamic type
IntVal(n) == [type |-> "int", val |-> n]
StringsVal(seq) == [type |-> "[]string", val |-> seq]

\* the stop sequence added whatever --force-one-sentence says
optionsAlwaysStop(a) ==
    [k \in {"num_predict", "temperature", "seed", "stop"} |->
        IF k = "num_predict" THEN IntVal(200)
        ELSE IF k = "temperature" THEN IntVal(0)
        ELSE IF k = "seed" THEN IntVal(1)
        ELSE StringsVal(<<".">>)]

\* options(args): the generation options as a map[string]any
options(a) ==
    [k \in {"num_predict", "temperature", "seed"}
            \cup (IF a.ForceOneSentence THEN {"stop"} ELSE {}) |->
        IF k = "num_predict" THEN IntVal(200)
        ELSE IF k = "temperature" THEN IntVal(0)
        ELSE IF k = "seed" THEN IntVal(1)
        ELSE StringsVal(<<".">>)]

\* v, ok := opts[key].(type)
HasType(opts, key, type) == key \in DOMAIN opts /\ opts[key].type = type

\* the system message put in front whatever the system prompt is
SystemMessagesAlways(system) == <<[Role |-> "system", Content |-> system]>>

\* if system != "" { msgs = append(msgs, system message) }
SystemMessages(system) ==
    IF system # "" THEN <<[Role |-> "system", Content |-> system]>> ELSE <<>>

\* the api.ChatRequest ChatWithImage sends
OllamaRequest(model, prompt, system, opts, imageData) ==
    [Model |-> model,
     Messages |-> SystemMessages(system)
                  \o <<[Role |-> "user", Content |-> prompt, Images |-> <<imageData>>]>>,
     Options |-> opts]

\* the MIME type ChatWithImageOpenAI derives from the extension
MimeType(imagePath) ==
    IF ToLower(Ext(imagePath)) = ".png" THEN "image/png" ELSE "image/jpeg"

\* the data URL of the image; base64 stands for the encoding of these bytes
DataURL(mimeType, imageData) ==
    [scheme |-> "data", mimeType |-> mimeType, base64 |-> imageData]

\* the openai.ChatCompletionRequest ChatWithImageOpenAI sends; a field the
\* conversion does not set keeps its zero value
OpenAIRequest(model, prompt, system, opts, imagePath, imageData) ==
    [Model |-> model,
     Messages |-> SystemMessages(system)
                  \o <<[Role |-> "user",
                        MultiContent |->
                          <<[Type |-> "text", Text |-> prompt],
                            [Type |-> "image_url",
                             ImageURL |-> DataURL(MimeType(imagePath), imageData)]>>]>>,
     MaxTokens |-> IF HasType(opts, "num_predict", "int")
                   THEN opts["num_predict"].val ELSE 0,
     Temperature |-> IF HasType(opts, "temperature", "float64")
                        \/ HasType(opts, "temperature", "int")
                     THEN opts["temperature"].val ELSE 0,
     Seed |-> IF HasType(opts, "seed", "int") THEN <<opts["seed"].val>> ELSE <<>>,
     Stop |-> IF HasType(opts, "stop", "[]string") THEN opts["stop"].val ELSE <<>>]

\* the request the callback's chat call sends for the image
ChatRequest(openai, a, imagePath, imageData) ==
    IF openai
    THEN OpenAIRequest(a.Model, a.Prompt, a.System, options(a), imagePath, imageData)
    ELSE OllamaRequest(a.Model, a.Prompt, a.System, options(a), imageData)

\* what a chat call can end in: a transport error, an answer without
\* choices (OpenAI protocol only), or a text
ChatOutcomes(openai) ==
    {[kind |-> "error", content |-> ""]}
    \cup (IF openai THEN {[kind |-> "nochoice", content |-> ""]} ELSE {})
    \cup {[kind |-> "ok", content |-> c] : c \in Outputs}

NoImage ==
    [path |-> "", root |-> "", captionFile |-> "", imageData |-> "", captionText |-> ""]

VARIABLES
    args,       \* cmdArgs
    fs,         \* the file system
    fs0,        \* the file system when the run started
    walkErrs,   \* entries whose lstat / readdir fails during the walk
    pc,         \* where the program is
    useOpenAI,  \* main's useOpenAI
    piErr,      \* the error ProcessImages returns
    queue,      \* processFunc calls ProcessImages has still to make
    cur,        \* the image the callback is working on
    calls,      \* processFunc calls made so far
    requests,   \* chat requests sent so far, with their outcome
    stdout,     \* lines printed
    stderr,     \* lines logged
    trace,      \* the steps taken, in order
    exitCode    \* -1 while the process runs

vars == <<args, fs, fs0, walkErrs, pc, useOpenAI, piErr, queue, cur, calls,
          requests, stdout, stderr, trace, exitCode>>

InitFrom(a, w, start) ==
    /\ args = a
    /\ fs = w.fsys
    /\ walkErrs = w.errs
    /\ fs0 = w.fsys
    /\ pc = start
    /\ useOpenAI = FALSE
    /\ piErr = "nil"
    /\ queue = <<>>
    /\ cur = NoImage
    /\ calls = <<>>
    /\ requests = <<>>
    /\ stdout = <<>>
    /\ stderr = <<>>
    /\ trace = <<>>
    /\ exitCode = -1

Init == \E w \in MainInputs : \E a \in ArgsChoices(w.path) : InitFrom(a, w, "start")

Info(text) == [kind |-> "info", rel |-> "", text |-> text]
CaptionLine(rel, text) == [kind |-> "caption", rel |-> rel, text |-> text]
Event(ev, path) == [ev |-> ev, path |-> path]

\* the failure logged and the walk left to go on with the next image
LogAndContinue(msg) ==
    /\ pc' = "pi"
    /\ exitCode' = exitCode
    /\ stderr' = Append(stderr, msg)

\* log.Fatal / log.Fatalf: the message is logged and the process exits 1
Fatal(msg) ==
    /\ pc' = "exit"
    /\ exitCode' = 1
    /\ stderr' = Append(stderr, msg)

\* main up to the ProcessImages call: pick the backend, make its client
Startup ==
    /\ pc = "start"
    /\ useOpenAI' = UseOpenAI(args)
    /\ IF UseOpenAI(args)
       THEN /\ stdout' = stdout \o <<Info("Using OpenAI-compatible API at: " \o args.OpenAPI),
                                     Info("Using Model: " \o args.Model),
                                     Info("Scanning: " \o args.Path)>>
            /\ pc' = "scan"
            /\ UNCHANGED <<exitCode, stderr, trace>>
       ELSE \E clientOk \in BOOLEAN :
              IF clientOk
              THEN /\ stdout' = stdout \o <<Info("Using Ollama API (OLLAMA_HOST or default)"),
                                            Info("Using Model: " \o args.Model),
                                            Info("Scanning: " \o args.Path)>>
                   /\ pc' = "scan"
                   /\ UNCHANGED <<exitCode, stderr, trace>>
              ELSE /\ stdout' = stdout \o <<Info("Using Ollama API (OLLAMA_HOST or default)"),
                                            Info("Error: client")>>
                   /\ pc' = "exit"
                   /\ exitCode' = 1
                   /\ trace' = Append(trace, Event("clientfail", ""))
                   /\ UNCHANGED stderr
    /\ UNCHANGED <<args, fs, fs0, walkErrs, piErr, queue, cur, calls, requests>>

\* ProcessImages up to its first processFunc call
ProcessImagesStat ==
    /\ pc = "scan"
    /\ \E r \in {ProcessImages(args.Path, fs, walkErrs)} :
         /\ piErr' = r.err
         /\ queue' = r.calls
    /\ pc' = "pi"
    /\ UNCHANGED <<args, fs, fs0, walkErrs, useOpenAI, cur, calls, requests,
                   stdout, stderr, trace, exitCode>>

\* the callback is called for the next image: caption path, existence check
Visit ==
    /\ pc = "pi"
    /\ queue # <<>>
    /\ \E c \in {Head(queue)}, capf \in {CaptionFile(Head(queue).path)} :
           /\ calls' = Append(calls, c)
           /\ queue' = Tail(queue)
           /\ IF SkipExisting(args, fs, capf)
              THEN /\ pc' = "pi"
                   /\ cur' = NoImage
                   /\ trace' = trace \o <<Event("visit", c.path), Event("skip", c.path)>>
              ELSE /\ pc' = "read"
                   /\ cur' = [path |-> c.path, root |-> c.root,
                              captionFile |-> capf, imageData |-> "",
                              captionText |-> ""]
                   /\ trace' = Append(trace, Event("visit", c.path))
    /\ UNCHANGED <<args, fs, fs0, walkErrs, useOpenAI, piErr, requests, stdout,
                   stderr, exitCode>>

\* os.ReadFile(imagePath) at the top of either chat function
ReadImage ==
    /\ pc = "read"
    /\ \E ok \in BOOLEAN :
         IF ok
         THEN /\ pc' = "chat"
              /\ cur' = [cur EXCEPT !.imageData = fs[Clean(cur.path)].content]
              /\ trace' = Append(trace, Event("read", cur.path))
              /\ UNCHANGED <<stderr, exitCode>>
         ELSE /\ Fatal("Aborting because of failed to read image")
              /\ trace' = Append(trace, Event("readfail", cur.path))
              /\ UNCHANGED cur
    /\ UNCHANGED <<args, fs, fs0, walkErrs, useOpenAI, piErr, queue, calls,
                   requests, stdout>>

\* the request of either chat function and what comes back
Chat ==
    /\ pc = "chat"
    /\ \E o \in ChatOutcomes(useOpenAI) :
         /\ requests' = Append(requests,
                [path |-> cur.path, transport |-> Transport(useOpenAI),
                 req |-> ChatRequest(useOpenAI, args, cur.path, cur.imageData),
                 outcome |-> o.kind, content |-> o.content])
         /\ IF o.kind = "ok"
            THEN /\ cur' = [cur EXCEPT !.captionText = ChatCaption(useOpenAI, o.content)]
                 /\ pc' = "print"
                 /\ trace' = Append(trace, Event("request", cur.path))
                 /\ UNCHANGED <<stderr, exitCode>>
            ELSE /\ Fatal(IF ~useOpenAI THEN "chat error"
                          ELSE IF o.kind = "error"
                               THEN "Aborting because of OpenAI API error"
                               ELSE "Aborting because of no response from OpenAI API")
                 /\ trace' = Append(trace, Event("chatfail", cur.path))
                 /\ UNCHANGED cur
    /\ UNCHANGED <<args, fs, fs0, walkErrs, useOpenAI, piErr, queue, calls, stdout>>

\* the final caption is put together but its line is left unprinted
PrintCaptionUnprinted ==
    /\ pc = "print"
    /\ cur' = [cur EXCEPT !.captionText = FinalCaption(args, cur.captionText)]
    /\ pc' = "write"
    /\ UNCHANGED <<args, fs, fs0, walkErrs, useOpenAI, piErr, queue, calls,
                   requests, stdout, stderr, trace, exitCode>>

\* the final caption is put together and printed
PrintCaption ==
    /\ pc = "print"
    /\ \E text \in {FinalCaption(args, cur.captionText)} :
           /\ cur' = [cur EXCEPT !.captionText = text]
           /\ stdout' = Append(stdout, CaptionLine(PrintedPath(cur.path, cur.root), text))
    /\ trace' = Append(trace, Event("print", cur.path))
    /\ pc' = "write"
    /\ UNCHANGED <<args, fs, fs0, walkErrs, useOpenAI, piErr, queue, calls,
                   requests, stderr, exitCode>>

\* the caption file is written unless --dry-run; the callback returns
WriteCaption ==
    /\ pc = "write"
    /\ IF ShouldWrite(args)
       THEN \E w \in WriteFileOutcomes(fs, cur.captionFile, cur.captionText) :
              /\ fs' = w.fsys
              /\ IF w.ok
                 THEN /\ pc' = "pi"
                      /\ cur' = NoImage
                      /\ trace' = Append(trace, Event("write", cur.path))
                      /\ UNCHANGED <<stderr, exitCode>>
                 ELSE /\ Fatal("Could not write file")
                      /\ trace' = Append(trace, Event("writefail", cur.path))
                      /\ UNCHANGED cur
       ELSE /\ pc' = "pi"
            /\ cur' = NoImage
            /\ UNCHANGED <<fs, trace, stderr, exitCode>>
    /\ UNCHANGED <<args, fs0, walkErrs, useOpenAI, piErr, queue, calls, requests,
                   stdout>>

\* main falls off its end whatever ProcessImages returned
MainReturnZero ==
    /\ pc = "pi"
    /\ queue = <<>>
    /\ pc' = "exit"
    /\ exitCode' = 0
    /\ UNCHANGED <<args, fs, fs0, walkErrs, useOpenAI, piErr, queue, cur, calls,
                   requests, stdout, stderr, trace>>

\* ProcessImages has returned: main reports its error or falls off its end
MainReturn ==
    /\ pc = "pi"
    /\ queue = <<>>
    /\ pc' = "exit"
    /\ IF piErr # "nil"
       THEN /\ stderr' = Append(stderr, "Error: " \o piErr)
            /\ exitCode' = 1
       ELSE /\ exitCode' = 0
            /\ UNCHANGED stderr
    /\ UNCHANGED <<args, fs, fs0, walkErrs, useOpenAI, piErr, queue, cur, calls,
                   requests, stdout, trace>>

Next ==
    \/ Startup
    \/ ProcessImagesStat
    \/ Visit
    \/ ReadImage
    \/ Chat
    \/ PrintCaption
    \/ WriteCaption
    \/ MainReturn

Spec == Init /\ [][Next]_vars

(***************************************************************************)
(* ProcessImages on its own, with a processFunc that records its calls     *)
(***************************************************************************)
\* only Path matters to ProcessImages
WalkArgs(path) ==
    {a \in ArgsChoices(path) : /\ a.DryRun /\ ~a.Force /\ a.OpenAPI = ""
                               /\ a.StartCaption = "" /\ a.EndCaption = ""
                               /\ a.System = "" /\ ~a.ForceOneSentence}

InitWalk ==
    \E w \in WalkInputs : \E e \in WalkErrChoices(w.fsys, w.path) :
        \E a \in WalkArgs(w.path) :
            InitFrom(a, [fsys |-> w.fsys, path |-> w.path, errs |-> e], "scan")

RecordCall ==
    /\ pc = "pi"
    /\ queue # <<>>
    /\ calls' = Append(calls, Head(queue))
    /\ queue' = Tail(queue)
    /\ UNCHANGED <<args, fs, fs0, walkErrs, pc, useOpenAI, piErr, cur, requests,
                   stdout, stderr, trace, exitCode>>

WalkReturn ==
    /\ pc = "pi"
    /\ queue = <<>>
    /\ pc' = "returned"
    /\ UNCHANGED <<args, fs, fs0, walkErrs, useOpenAI, piErr, queue, cur, calls,
                   requests, stdout, stderr, trace, exitCode>>

NextWalk ==
    \/ ProcessImagesStat
    \/ RecordCall
    \/ WalkReturn

SpecWalk == InitWalk /\ [][NextWalk]_vars

(***************************************************************************)
(* The program run a second time over the tree a first run left            *)
(***************************************************************************)
\* the command line of a run with neither --dry-run nor --force
RerunArgs(path) == {a \in ArgsChoices(path) : ~a.DryRun /\ ~a.Force}

InitRerun ==
    \E w \in MainInputs : \E a \in RerunArgs(w.path) : InitFrom(a, w, "start")

\* after a run that ended with exit code 0 the same command line is run
\* again: the tree is as the first run left it, entries that could not be
\* read still cannot, and the process starts afresh
Rerun ==
    /\ pc = "exit"
    /\ exitCode = 0
    /\ ~args.DryRun /\ ~args.Force
    /\ \A i \in DOMAIN trace : trace[i].ev # "rerun"
    /\ fs0' = fs
    /\ pc' = "start"
    /\ useOpenAI' = FALSE
    /\ piErr' = "nil"
    /\ queue' = <<>>
    /\ cur' = NoImage
    /\ calls' = <<>>
    /\ requests' = <<>>
    /\ stdout' = <<>>
    /\ stderr' = <<>>
    /\ trace' = <<Event("rerun", "")>>
    /\ exitCode' = -1
    /\ UNCHANGED <<args, fs, walkErrs>>

NextRerun ==
    \/ Next
    \/ Rerun

SpecRerun == InitRerun /\ [][NextRerun]_vars

(***************************************************************************)
(* What the claims speak of                                                *)
(***************************************************************************)
\* the caption lines printed so far
CaptionLines == {i \in DOMAIN stdout : stdout[i].kind = "caption"}

\* the steps of one kind taken so far
Steps(ev) == {i \in DOMAIN trace : trace[i].ev = ev}

FailEvents == {"readfail", "chatfail", "writefail"}

\* the path argument names a directory
RootIsDir == StatOk(fs0, args.Path) /\ IsDir(fs0, args.Path)

\* a is a subdirectory beneath d with a hidden name, and p lies in it
InHiddenSubdir(fsys, p, d) ==
    \E a \in DOMAIN fsys :
        /\ IsBeneath(a, d)
        /\ IsBeneath(p, a)
        /\ HasPrefix(Base(a), ".")

\* the images a walk of directory root is to yield
Expected(fsys, root) ==
    {p \in DOMAIN fsys :
        /\ fsys[p].kind = "file"
        /\ IsBeneath(p, Clean(root))
        /\ ToLower(Ext(p)) \in {".jpg", ".jpeg", ".png"}
        /\ ~InHiddenSubdir(fsys, p, Clean(root))}

CallsOf(p) == {i \in DOMAIN calls : calls[i].path = p}

\* the walk met a failure at p or at a directory above p
UnderErr(p) ==
    \E e \in walkErrs.lstat \cup walkErrs.readdir : e = p \/ IsBeneath(p, e)

NotUnderErr(c) == ~UnderErr(c.path)

\* the caption files written so far in this run
WrittenFiles == {Clean(CaptionFile(trace[i].path)) : i \in Steps("write")}

\* this step is the failure of an image's read, request or write
FailureStep ==
    /\ Len(trace') = Len(trace) + 1
    /\ trace'[Len(trace')].ev \in FailEvents

\* a failure step ends the run there: exit 1, at most the one request that
\* failed, nothing printed, the remaining images left unvisited
FailureIsFatal ==
    FailureStep =>
        /\ pc' = "exit" /\ exitCode' = 1
        /\ queue' = queue /\ calls' = calls /\ stdout' = stdout
        /\ Len(requests') <= Len(requests) + 1
        /\ \A i \in DOMAIN requests : requests'[i] = requests[i]

Unchanged(f) == f \in DOMAIN fs' /\ fs'[f] = fs[f]

(***************************************************************************)
(* The claims                                                              *)
(***************************************************************************)
\* C1: an image whose caption file exists when it is visited, without
\* --force, is passed over: the visit makes no request, prints nothing,
\* logs nothing and leaves every file as it is, and the callback is back in
\* ProcessImages.
C1_ExistingCaptionSkipped ==
    [][(/\ pc = "pi" /\ queue # <<>> /\ exitCode = -1
        /\ ~args.Force
        /\ StatOk(fs, CaptionFile(Head(queue).path)))
       => (/\ calls' = Append(calls, Head(queue))
           /\ requests' = requests /\ stdout' = stdout /\ stderr' = stderr
           /\ fs' = fs
           /\ pc' = "pi" /\ cur' = NoImage)]_vars

\* an image with a caption file was passed over and a later one captioned
C1_Witness ==
    /\ ~args.Force
    /\ \E i \in Steps("skip") : StatOk(fs0, CaptionFile(trace[i].path))
    /\ Len(requests) > 0

\* C2: with --dry-run the file system stays what it was when the run
\* started, with or without --force, while every image that is not passed
\* over is still requested and printed: a run that ends without error has
\* one request and one caption line per such image.
C2_DryRunWritesNothing ==
    args.DryRun =>
        /\ fs = fs0
        /\ (pc = "write" =>
                /\ requests[Len(requests)].path = cur.path
                /\ stdout[Len(stdout)] =
                      CaptionLine(PrintedPath(cur.path, cur.root), cur.captionText))
        /\ (pc = "exit" /\ exitCode = 0 =>
                /\ Len(requests) = Cardinality(Steps("visit")) - Cardinality(Steps("skip"))
                /\ Cardinality(CaptionLines) = Len(requests))

\* a dry run with --force captioned an image that has a caption file
C2_Witness ==
    /\ args.DryRun /\ args.Force
    /\ pc = "exit" /\ exitCode = 0
    /\ CaptionLines # {}
    /\ \E i \in DOMAIN requests : StatOk(fs, CaptionFile(requests[i].path))

\* C3: for a directory (walked without failures) the callback is called
\* exactly once for each image file beneath it outside hidden
\* subdirectories, and for nothing else.
C3_EachImageOnce ==
    (pc = "returned" /\ RootIsDir /\ walkErrs = NoErrs) =>
        /\ \A p \in Expected(fs0, args.Path) : Cardinality(CallsOf(p)) = 1
        /\ \A i \in DOMAIN calls : calls[i].path \in Expected(fs0, args.Path)

\* C4: whatever the name of the directory given, also one whose last
\* element starts with ".", every image beneath it outside hidden
\* subdirectories is yielded, with the path given as its root.
C4_HiddenRootWalked ==
    (pc = "returned" /\ RootIsDir /\ walkErrs = NoErrs) =>
        \A p \in Expected(fs0, args.Path) :
            \E i \in DOMAIN calls : calls[i] = [path |-> p, root |-> args.Path]

\* C5: for a path that is no directory ProcessImages returns no error; the
\* callback is called once, with that path and its parent directory, when
\* the extension is an image's, and not at all otherwise.
C5_SingleFile ==
    (pc = "returned" /\ StatOk(fs0, args.Path) /\ ~IsDir(fs0, args.Path)) =>
        /\ piErr = "nil"
        /\ IF ToLower(Ext(args.Path)) \in {".jpg", ".jpeg", ".png"}
           THEN /\ Len(calls) = 1
                /\ calls[1].path = args.Path
                /\ IsDir(fs0, calls[1].root)
                /\ Join(calls[1].root, Base(args.Path)) = Clean(args.Path)
                /\ calls[1].root = Clean(calls[1].root)
           ELSE calls = <<>>

\* a single image in a directory other than the working directory
C5_Witness ==
    /\ pc = "returned" /\ StatOk(fs0, args.Path) /\ ~IsDir(fs0, args.Path)
    /\ Len(calls) = 1
    /\ calls[1].root = "pics"

\* C6: on either transport the caption printed (and then written) is
\* trim(start + " " + trim(model text) + " " + end).
C6_CaptionTrimsModelText ==
    pc = "write" =>
        /\ cur.captionText =
              TrimSpace(args.StartCaption \o " "
                        \o TrimSpace(requests[Len(requests)].content)
                        \o " " \o args.EndCaption)
        /\ stdout[Len(stdout)].text = cur.captionText

\* C7: the transport is fixed at startup by whether --openai is empty, and
\* every request of the run goes through it.
C7_OneTransport ==
    /\ pc # "start" => useOpenAI = (args.OpenAPI # "")
    /\ \A i \in DOMAIN requests :
          requests[i].transport = IF args.OpenAPI # "" THEN "openai" ELSE "ollama"

\* two requests went through the OpenAI transport
C7_Witness ==
    /\ args.OpenAPI # ""
    /\ Len(requests) >= 2
    /\ requests[1].transport = "openai"

\* C8 as stated: a failed read, request or write ends the run there, and
\* every caption file written earlier in the run stays as written.
C8_FatalKeepsWritten ==
    [][/\ FailureIsFatal
       /\ FailureStep => \A f \in WrittenFiles : Unchanged(f)
       /\ pc # "exit"]_vars

\* C8 amended: a failed read, request or write ends the run there; the
\* failing step leaves every file as it was, but for the caption file of
\* the failing image itself, which a failed write may leave truncated or
\* partly written (with --force that file can be one an earlier image with
\* the same base name wrote).  Nothing happens after the exit.
C8_FatalKeepsOtherFiles ==
    [][/\ FailureIsFatal
       /\ FailureStep =>
            /\ \A f \in DOMAIN fs \ {Clean(cur.captionFile)} : Unchanged(f)
            /\ DOMAIN fs' \subseteq DOMAIN fs \cup {Clean(cur.captionFile)}
            /\ trace'[Len(trace')].ev # "writefail" => fs' = fs
       /\ pc # "exit"]_vars

\* the second image's write failed after the first image's caption was
\* written, and the second image was left without its complete caption
C8_Witness ==
    /\ pc = "exit" /\ exitCode = 1
    /\ Steps("writefail") # {}
    /\ Cardinality(Steps("write")) = 1
    /\ Len(requests) = 2
    /\ queue = <<>>

C10_WalkErrorsSkipEntry ==
    (pc = "returned" /\ RootIsDir) =>
        /\ piErr = "nil"
        /\ calls = SelectSeq(ProcessImages(args.Path, fs0, NoErrs).calls, NotUnderErr)

\* a walk lost an image to a failure and still yielded another one
C10_Witness ==
    /\ pc = "returned" /\ RootIsDir
    /\ walkErrs # NoErrs
    /\ calls # <<>>
    /\ Len(calls) < Len(ProcessImages(args.Path, fs0, NoErrs).calls)

\* the step before step i of the run is step ev of the same image
Follows(i, ev) ==
    /\ i > 1
    /\ trace[i - 1].ev = ev
    /\ trace[i - 1].path = trace[i].path

\* step i of the run comes where the callback's order puts it
InOrder(i) ==
    IF trace[i].ev = "visit"
    THEN i > 1 => \/ trace[i - 1].ev \in {"skip", "write"}
                  \/ trace[i - 1].ev = "print" /\ args.DryRun
    ELSE IF trace[i].ev \in {"skip", "read", "readfail"} THEN Follows(i, "visit")
    ELSE IF trace[i].ev \in {"request", "chatfail"} THEN Follows(i, "read")
    ELSE IF trace[i].ev = "print" THEN Follows(i, "request")
    ELSE IF trace[i].ev \in {"write", "writefail"} THEN Follows(i, "print") /\ ~args.DryRun
    ELSE i = 1

\* C11: images are processed one at a time, each in the order existence
\* check, read, request, print, write: a step of an image directly follows
\* the step before it of the same image, an image is visited only when the
\* one before it is finished, and a caption file is written only after its
\* caption line is on standard output, the last line printed.
C11_StepsInOrder ==
    /\ \A i \in DOMAIN trace : InOrder(i)
    /\ Cardinality(CaptionLines) = Cardinality(Steps("print"))
    /\ Len(requests) = Cardinality(Steps("request")) + Cardinality(Steps("chatfail"))
    /\ \A i \in Steps("write") \cup Steps("writefail") :
          \E k \in CaptionLines :
              /\ stdout[k].rel = PrintedPath(trace[i].path, calls[Cardinality({j \in Steps("visit") : j < i})].root)
              /\ Cardinality({j \in CaptionLines : j <= k})
                     = Cardinality({j \in Steps("print") : j < i})

\* two images went through all their steps, the second after the first
C11_Witness ==
    /\ pc = "exit" /\ exitCode = 0
    /\ Cardinality(Steps("write")) = 2
    /\ Cardinality(Steps("skip")) = 0

\* the image path with its extension replaced by .txt, as a file of the tree
SiblingTxt(path) == Clean(SubSeq(path, 1, Len(path) - Len(Ext(path))) \o ".txt")

\* this step completes the write of the image's caption
WriteDone ==
    /\ pc = "write"
    /\ Len(trace') = Len(trace) + 1
    /\ trace'[Len(trace')].ev = "write"

\* C12: a step that changes the file system is the write step of the image
\* being processed and changes nothing but that image's caption file, the
\* image path with its extension replaced by .txt; when the write completes
\* (with --force also over a caption file that was there) the file's content
\* is exactly the final caption, the text just printed.
C12_WritesOnlyCaptionFile ==
    [][/\ fs' # fs =>
            /\ pc = "write" /\ ~args.DryRun
            /\ cur.path = calls[Len(calls)].path
            /\ DOMAIN fs' = DOMAIN fs \cup {SiblingTxt(cur.path)}
            /\ \A f \in DOMAIN fs \ {SiblingTxt(cur.path)} : fs'[f] = fs[f]
       /\ WriteDone =>
            /\ SiblingTxt(cur.path) \in DOMAIN fs'
            /\ fs'[SiblingTxt(cur.path)] = File(stdout[Len(stdout)].text)
            /\ stdout[Len(stdout)].text = FinalCaption(args, ChatCaption(useOpenAI, requests[Len(requests)].content))]_vars

\* with --force an image's old caption was replaced by a new one
C12_Witness ==
    /\ args.Force /\ ~args.DryRun
    /\ \E i \in Steps("write") : trace[i].path = "pics/B.JPEG"
    /\ "pics/B.txt" \in DOMAIN fs
    /\ fs["pics/B.txt"] = File("X a Y")
    /\ fs0["pics/B.txt"] = File("old")

\* an image's read, request or write failed in this run
ImageFailed == \E ev \in FailEvents : Steps(ev) # {}

WithRole(r, role) == {k \in DOMAIN r.req.Messages : r.req.Messages[k].Role = role}

\* message m carries the prompt and the bytes of the image of request r
CarriesPromptAndImage(r, m) ==
    IF r.transport = "ollama"
    THEN /\ m.Content = args.Prompt
         /\ m.Images = <<fs0[Clean(r.path)].content>>
    ELSE /\ Len(m.MultiContent) = 2
         /\ m.MultiContent[1] = [Type |-> "text", Text |-> args.Prompt]
         /\ m.MultiContent[2].Type = "image_url"
         /\ m.MultiContent[2].ImageURL.base64 = fs0[Clean(r.path)].content

\* the message list of request r is as C14 has it
MessagesAsConfigured(r) ==
    /\ WithRole(r, "system") # {} <=> args.System # ""
    /\ WithRole(r, "system") \subseteq {1}
    /\ \A k \in WithRole(r, "system") : r.req.Messages[k].Content = args.System
    /\ WithRole(r, "user") = {Len(r.req.Messages)}
    /\ Len(r.req.Messages) = Cardinality(WithRole(r, "system")) + 1
    /\ CarriesPromptAndImage(r, r.req.Messages[Len(r.req.Messages)])

\* C14: on both transports a request has a system message exactly when the
\* system prompt is not empty, then as its first message; its last message
\* is the one user message, which carries the prompt and the image.
C14_MessageList ==
    \A i \in DOMAIN requests : MessagesAsConfigured(requests[i])

\* a request without a system message went out on the OpenAI transport
C14_Witness ==
    /\ args.System = ""
    /\ requests # <<>>
    /\ requests[1].transport = "openai"
    /\ Len(requests[1].req.Messages) = 1

\* the stop sequences the flag asks for
StopWanted == IF args.ForceOneSentence THEN <<".">> ELSE <<>>

\* the options of request r are the fixed ones
FixedOptions(r) ==
    IF r.transport = "ollama"
    THEN /\ DOMAIN r.req.Options =
                {"num_predict", "temperature", "seed"}
                \cup (IF args.ForceOneSentence THEN {"stop"} ELSE {})
         /\ r.req.Options["num_predict"].val = 200
         /\ r.req.Options["temperature"].val = 0
         /\ r.req.Options["seed"].val = 1
         /\ args.ForceOneSentence => r.req.Options["stop"].val = <<".">>
    ELSE /\ r.req.MaxTokens = 200
         /\ r.req.Temperature = 0
         /\ r.req.Seed = <<1>>
         /\ r.req.Stop = StopWanted

\* C15: every request, on either transport, carries token cap 200,
\* temperature 0, seed 1 and the stop sequence "." exactly when
\* --force-one-sentence is set; the fields of the OpenAI request hold the
\* values of the Ollama options.
C15_SameOptions ==
    \A i \in DOMAIN requests : FixedOptions(requests[i])

\* two requests with the stop sequence went out on the OpenAI transport
C15_Witness ==
    /\ args.ForceOneSentence
    /\ Len(requests) = 2
    /\ requests[2].transport = "openai"
    /\ requests[2].req.Stop = <<".">>
    /\ requests[2].req.MaxTokens = 200

\* the steps at which a caption file was opened for writing
WriteAttempts == Steps("write") \cup Steps("writefail")

\* the requests made for the image at path
RequestsFor(path) == {k \in DOMAIN requests : requests[k].path = path}

\* C16: without --force no file that was there when the run started is
\* changed, no caption file is written twice, and an image visited after
\* another image wrote the caption file they share is passed over without
\* a request.
C16_NoForceWritesOnce ==
    ~args.Force =>
        /\ \A f \in DOMAIN fs0 : f \in DOMAIN fs /\ fs[f] = fs0[f]
        /\ \A i, j \in WriteAttempts :
              i # j => SiblingTxt(trace[i].path) # SiblingTxt(trace[j].path)
        /\ \A i \in Steps("write") : \A j \in Steps("visit") :
              (j > i /\ SiblingTxt(trace[j].path) = SiblingTxt(trace[i].path)) =>
                 /\ j + 1 \in Steps("skip")
                 /\ RequestsFor(trace[j].path) = {}

\* a.jpg wrote a.txt, and a.png was then passed over
C16_Witness ==
    /\ ~args.Force /\ ~args.DryRun
    /\ pc = "exit" /\ exitCode = 0
    /\ \E i \in Steps("write") : trace[i].path = "pics/a.jpg"
    /\ \E j \in Steps("skip") : trace[j].path = "pics/a.png"
    /\ Len(requests) = 1

\* this is the second run
Second == Steps("rerun") # {}

\* C17: a second run, after a first one without --dry-run and --force that
\* ended without a fatal error, over the tree the first left: it makes no
\* request, prints no caption line and changes no file, every image it
\* finds being passed over for its caption file.
C17_RerunIdempotent ==
    Second =>
        /\ requests = <<>>
        /\ CaptionLines = {}
        /\ fs = fs0
        /\ pc \notin {"read", "chat", "print", "write"}
        /\ Cardinality(Steps("skip")) = Len(calls)
        /\ \A i \in DOMAIN calls : StatOk(fs0, CaptionFile(calls[i].path))

\* the second run passed over an image only the first run had captioned
C17_Witness ==
    /\ Second
    /\ pc = "exit" /\ exitCode = 0
    /\ Len(calls) = 2
    /\ \E i \in Steps("skip") : trace[i].path = "pics/sub/d.png"
====
